---- MODULE Spec2Model ----
(***************************************************************************)
(* A model of the two scripts of chess-analysis-script:                    *)
(*   - the game analyzer (fetchGames, identifyOpening, analyzeGames,       *)
(*     sortOpenings), and                                                  *)
(*   - scripts/generate-data.ts (fetchOpenings, processRows, writeToData,  *)
(*     main).                                                              *)
(* Strings that the code takes apart are modelled by their parts: a FEN is *)
(* the sequence of its six space-separated fields, a TSV row the sequence  *)
(* of its tab-separated fields, a response body the sequence of its lines. *)
(* A PGN string is modelled by its text tag together with what chess.js    *)
(* makes of it (the replay engine is an external collaborator).            *)
(***************************************************************************)
EXTENDS Integers, Sequences, FiniteSets, TLC

VARIABLES
  pc,            \* control point of the running script / function
  dataset,       \* which openings dataset the remote TSV files hold
  promises,      \* the tasks of the current fetch fan-out: [st, res, val]
  completed,     \* indices of the settled fetch tasks, in settle order
  rows,          \* the value fetchOpenings returned
  built,         \* main's epdLookup, ecoLookup, categoryLookup, openingList
  dirExists,     \* existsSync(DATA_DIR)
  writes,        \* the five writeToData tasks
  files,         \* the files written in this run: [file, data]
  archiveList,   \* the parsed archive list of the player
  epdLookup,     \* the analyzer's imported position-code index
  games,         \* the list fetchGames returned / analyzeGames is given
  openingStats,  \* analyzeGames' accumulator
  cur,           \* forEach: number of games processed, and the last one
  analyzedGames, \* the value analyzeGames returned
  pgn,           \* identifyOpening's argument
  identified     \* identifyOpening's outcome

vars == <<pc, dataset, promises, completed, rows, built, dirExists, writes,
          files, archiveList, epdLookup, games, openingStats, cur,
          analyzedGames, pgn, identified>>

\* null and undefined are records, so that they compare with any object
Null == [js |-> "null"]

Undefined == [js |-> "undefined"]

\* !v for a value that is an object, null or undefined
Falsy(v) == v = Null \/ v = Undefined

-----------------------------------------------------------------------------
(* Bounds of the model. *)

\* longest move history given to identifyOpening
MaxPlies == 3

\* longest list of games analyzeGames is followed through game by game
MaxGames == 3

\* number of distinct openings in the long game lists given to analyzeGames
NumOpenings == 11

\* longest archive list the game archive answers with
MaxArchives == 3

-----------------------------------------------------------------------------
(* JavaScript values. *)

\* An object with string keys is the sequence of its [key, value] entries in
\* insertion order (the order Object.keys and Object.entries give).
ObjHas(o, k) == \E i \in 1..Len(o) : o[i].key = k

ObjGet(o, k) == o[CHOOSE i \in 1..Len(o) : o[i].key = k].value

ObjSet(o, k, v) ==
  IF ObjHas(o, k)
  THEN [o EXCEPT ![CHOOSE i \in 1..Len(o) : o[i].key = k] = [key |-> k, value |-> v]]
  ELSE Append(o, [key |-> k, value |-> v])

ObjectKeys(o) == [i \in 1..Len(o) |-> o[i].key]

RECURSIVE Flat(_)
\* Array.prototype.flat() of an array of arrays
Flat(ss) == IF ss = <<>> THEN <<>> ELSE Head(ss) \o Flat(Tail(ss))

\* Array.prototype.slice(-n)
SliceLast(s, n) == IF Len(s) <= n THEN s ELSE SubSeq(s, Len(s) - n + 1, Len(s))

\* Array.prototype.slice(0, n)
SliceFirst(s, n) == IF Len(s) <= n THEN s ELSE SubSeq(s, 1, n)

\* Array.prototype.slice(1)
SliceFrom1(s) == IF s = <<>> THEN <<>> ELSE Tail(s)

RECURSIVE SelectSeqOf(_, _)
\* Array.prototype.filter with the set of kept values as the test
SelectSeqOf(s, keep) ==
  IF s = <<>> THEN <<>>
  ELSE IF Head(s) \in keep THEN <<Head(s)>> \o SelectSeqOf(Tail(s), keep)
       ELSE SelectSeqOf(Tail(s), keep)

Range(s) == {s[i] : i \in 1..Len(s)}

\* String.prototype.toLowerCase on the user names of the model
Usernames == {"shomidamoney", "ShomidaMoney", "SHOMIDAMONEY", "rival"}

ToLowerCase(s) ==
  CASE s = "ShomidaMoney" -> "shomidamoney"
    [] s = "SHOMIDAMONEY" -> "shomidamoney"
    [] OTHER -> s

-----------------------------------------------------------------------------
(* chess.js: positions, moves, PGN. *)

\* FEN strings, as their six fields. The second differs from the first in the
\* en-passant field only, the fourth from the third in the move counters only.
Fens ==
  { <<"pos1", "b", "KQkq", "e3", "0", "1">>,
    <<"pos1", "b", "KQkq", "-", "0", "1">>,
    <<"pos2", "w", "KQkq", "-", "0", "2">>,
    <<"pos2", "w", "KQkq", "-", "4", "6">>,
    <<"pos3", "b", "kq", "-", "1", "2">> }

StartFen == <<"start", "w", "KQkq", "-", "0", "1">>

\* fen.split(" ").slice(0, 4).join(" ")
Epd(fen) == SubSeq(fen, 1, 4)

\* a verbose history entry whose position after the move is fen
MoveTo(fen) == [from |-> "e2", to |-> "e4", promotion |-> "", after |-> fen]

PromotionTo(fen) == [from |-> "a7", to |-> "a8", promotion |-> "q", after |-> fen]

EmptyPgn == [text |-> "", valid |-> TRUE, moves |-> <<>>]

HeaderOnlyPgn == [text |-> "[Event x]", valid |-> TRUE, moves |-> <<>>]

MalformedPgn == [text |-> "1. e9", valid |-> FALSE, moves |-> <<>>]

MovesPgn(h) == [text |-> "1. ...", valid |-> TRUE, moves |-> h]

\* chess.history({ verbose: true }) after chess.loadPgn(p)
History(p) == p.moves

\* chess.fen() after chess.loadPgn(p)
FinalFen(p) == IF p.moves = <<>> THEN StartFen ELSE p.moves[Len(p.moves)].after

Opening(eco, name, fen) ==
  [eco |-> eco, name |-> name, pgn |-> MovesPgn(<<MoveTo(fen)>>),
   epd |-> Epd(fen), uci |-> <<"e2", "e4">>]

\* a position-code index: epd -> OpeningData, from a set of records
IndexOf(S) == [e \in {o.epd : o \in S} |-> CHOOSE o \in S : o.epd = e]

EpdIndexes ==
  { IndexOf({}),
    IndexOf({ Opening(<<"C", "5", "0">>, "Italian Game", <<"pos1", "b", "KQkq", "e3", "0", "1">>),
              Opening(<<"B", "2", "0">>, "Sicilian Defense", <<"pos2", "w", "KQkq", "-", "0", "2">>) }),
    IndexOf({ Opening(<<"C", "0", "0">>, "French Defense", <<"pos3", "b", "kq", "-", "1", "2">>),
              Opening(<<"A", "0", "0">>, "Polish Opening", <<"pos1", "b", "KQkq", "-", "0", "1">>),
              Opening(<<"B", "2", "0">>, "Sicilian Defense", <<"pos2", "w", "KQkq", "-", "0", "2">>) }) }

-----------------------------------------------------------------------------
(* identifyOpening *)

RECURSIVE ScanForward(_, _, _)
\* a scan that probes the earliest remaining ply first (history.shift())
ScanForward(index, history, result) ==
  IF ~Falsy(result) THEN result
  ELSE IF Len(history) = 0 THEN result
  ELSE LET epd == Epd(history[1].after)
       IN ScanForward(index, Tail(history),
                      IF epd \in DOMAIN index THEN index[epd] ELSE Undefined)

RECURSIVE ScanBackward(_, _, _)
\* the while loop: probe the last remaining ply, then pop it
ScanBackward(index, history, result) ==
  IF ~Falsy(result) THEN result
  ELSE IF Len(history) = 0 THEN result
  ELSE LET epd == Epd(history[Len(history)].after)
       IN ScanBackward(index, SubSeq(history, 1, Len(history) - 1),
                       IF epd \in DOMAIN index THEN index[epd] ELSE Undefined)

\* identifyOpening(p) against the index: what it returns (or that loadPgn
\* threw), and whether the replay engine was invoked
IdentifyOpening(index, p) ==
  IF p.text = "" THEN [threw |-> FALSE, result |-> Null, engine |-> FALSE]
  ELSE IF ~p.valid THEN [threw |-> TRUE, result |-> Null, engine |-> TRUE]
  ELSE [threw |-> FALSE, result |-> ScanBackward(index, History(p), Null),
        engine |-> TRUE]

-----------------------------------------------------------------------------
(* analyzeGames and sortOpenings *)

USERNAME == "shomidamoney"

\* the literal of the filter: total > 15
MinTotal == 15

\* the literal of slice(0, 10)
TopCount == 10

InitialStats == [total |-> 0, wins |-> 0, losses |-> 0, draws |-> 0]

EmptyOpeningStats == [white |-> <<>>, black |-> <<>>]

PlayerColor(username, game) ==
  IF ToLowerCase(game.white.username) = ToLowerCase(username) THEN "white" ELSE "black"

OpponentColor(playerColor) == IF playerColor = "black" THEN "white" ELSE "black"

\* a result that looks for the win before it compares the two sides
GameResultWinFirst(game, playerColor) ==
  IF game[playerColor].result = "win" THEN "win"
  ELSE IF game[playerColor].result = game[OpponentColor(playerColor)].result THEN "draw"
  ELSE "loss"

GameResult(game, playerColor) ==
  IF game[playerColor].result = game[OpponentColor(playerColor)].result THEN "draw"
  ELSE IF game[playerColor].result = "win" THEN "win"
  ELSE "loss"

\* a switch whose "draw" case is missing
CountNoDraw(stat, result) ==
  [total |-> stat.total + 1,
   wins |-> IF result = "win" THEN stat.wins + 1 ELSE stat.wins,
   losses |-> IF result = "loss" THEN stat.losses + 1 ELSE stat.losses,
   draws |-> stat.draws]

\* openingStat.total++ and the switch over the result
Count(stat, result) ==
  [total |-> stat.total + 1,
   wins |-> IF result = "win" THEN stat.wins + 1 ELSE stat.wins,
   losses |-> IF result = "loss" THEN stat.losses + 1 ELSE stat.losses,
   draws |-> IF result = "draw" THEN stat.draws + 1 ELSE stat.draws]

\* the bucket of a name, created when it is missing
Bucket(byName, name) == IF ObjHas(byName, name) THEN ObjGet(byName, name) ELSE InitialStats

\* a body that counts a game without an opening under a name of its own
ForEachGameUnchecked(stats, username, game) ==
  LET playerColor == PlayerColor(username, game)
      name == IF Falsy(game.opening) THEN "undefined" ELSE game.opening.name
  IN [stats EXCEPT ![playerColor] =
        ObjSet(@, name, Count(Bucket(@, name), GameResult(game, playerColor)))]

\* the body of games.forEach
ForEachGame(stats, username, game) ==
  IF Falsy(game.opening) THEN stats
  ELSE LET playerColor == PlayerColor(username, game)
           name == game.opening.name
       IN [stats EXCEPT ![playerColor] =
             ObjSet(@, name, Count(Bucket(@, name), GameResult(game, playerColor)))]

RECURSIVE ForEachRange(_, _, _, _, _)
\* the iterations of games.forEach on gs[lo..hi], in order (halved, to keep
\* the evaluation shallow)
ForEachRange(stats, username, gs, lo, hi) ==
  IF lo > hi THEN stats
  ELSE IF lo = hi THEN ForEachGame(stats, username, gs[lo])
  ELSE LET mid == (lo + hi) \div 2
           left == ForEachRange(stats, username, gs, lo, mid)
       IN \* the test only makes TLC compute the first half before the second
          IF DOMAIN left = {"white", "black"}
          THEN ForEachRange(left, username, gs, mid + 1, hi)
          ELSE left

\* games.forEach from the accumulator stats
ForEach(stats, username, gs) == ForEachRange(stats, username, gs, 1, Len(gs))

\* stats.total ? (stats.wins / stats.total) * 100 : 0, as a fraction
WinRate(stats) ==
  IF stats.total # 0 THEN [num |-> stats.wins * 100, den |-> stats.total]
  ELSE [num |-> 0, den |-> 1]

\* the sign of the comparator (a, b) => b.winRate - a.winRate
Compare(a, b) ==
  LET d == b.winRate.num * a.winRate.den - a.winRate.num * b.winRate.den
  IN IF d < 0 THEN -1 ELSE IF d > 0 THEN 1 ELSE 0

\* x put before the first element that the comparator orders after it
InsertSorted(sorted, x) ==
  LET after == {i \in 1..Len(sorted) : Compare(sorted[i], x) > 0}
      at == IF after = {} THEN Len(sorted) + 1
            ELSE CHOOSE i \in after : \A j \in after : i <= j
  IN SubSeq(sorted, 1, at - 1) \o <<x>> \o SubSeq(sorted, at, Len(sorted))

RECURSIVE StableSort(_, _)
\* Array.prototype.sort with Compare: stable
StableSort(sorted, rest) ==
  IF rest = <<>> THEN sorted
  ELSE StableSort(InsertSorted(sorted, Head(rest)), Tail(rest))

\* Object.entries(openingStats).map(...)
WithWinRate(byName) ==
  [i \in 1..Len(byName) |->
     [openingName |-> byName[i].key, stats |-> byName[i].value,
      winRate |-> WinRate(byName[i].value)]]

\* a filter that lets an opening played 15 times through
PlayedEnoughInclusive(opening) == opening.stats.total >= MinTotal

\* the filter's test
PlayedEnough(opening) == opening.stats.total > MinTotal

SortOpenings(byName) ==
  LET all == WithWinRate(byName)
  IN StableSort(<<>>, SelectSeqOf(all, {o \in Range(all) : PlayedEnough(o)}))

\* winRate.toFixed(2), in hundredths of a percent
ToFixed2(rate) == (rate.num * 200 + rate.den) \div (2 * rate.den)

\* the template string, by its three interpolated parts
Format(opening) ==
  [winRate |-> ToFixed2(opening.winRate), openingName |-> opening.openingName,
   total |-> opening.stats.total]

TopOpenings(byName) ==
  LET top == SliceFirst(SortOpenings(byName), TopCount)
  IN [i \in 1..Len(top) |-> Format(top[i])]

\* the object analyzeGames returns
Summary(stats) == [white |-> TopOpenings(stats.white), black |-> TopOpenings(stats.black)]

-----------------------------------------------------------------------------
(* Inputs of the analyzer's pure functions. *)

OpeningNames ==
  << "Italian Game", "Sicilian Defense", "French Defense", "Caro-Kann Defense",
     "Ruy Lopez", "Queen's Gambit", "King's Indian Defense", "English Opening",
     "Scandinavian Defense", "Pirc Defense", "London System", "Vienna Game",
     "Dutch Defense", "Scotch Game" >>

NamedOpening(name) ==
  [eco |-> <<"C", "5", "0">>, name |-> name, pgn |-> "1. e4", epd |-> Epd(StartFen), uci |-> "e2e4"]

\* result strings of the game archive
Results == {"win", "checkmated", "agreed"}

\* a game as analyzeGames reads it
GameOf(whiteName, whiteResult, blackName, blackResult, opening) ==
  [white |-> [username |-> whiteName, result |-> whiteResult],
   black |-> [username |-> blackName, result |-> blackResult],
   opening |-> opening]

\* the games analyzeGames is followed through one at a time
GameInputs ==
  { GameOf(w, wr, IF w = "rival" THEN "ShomidaMoney" ELSE "rival", br, o) :
      w \in {"ShomidaMoney", "rival"}, wr \in Results, br \in Results,
      o \in {Null, Undefined, NamedOpening(OpeningNames[1]), NamedOpening(OpeningNames[2])} }

\* a game of the player with the given color, by its two result strings
SidedGame(name, color, mine, theirs) ==
  IF color = "white"
  THEN GameOf("ShomidaMoney", mine, "rival", theirs, NamedOpening(name))
  ELSE GameOf("rival", theirs, "ShomidaMoney", mine, NamedOpening(name))

\* a block of games of one opening: the player's first `wins` games are won,
\* the next is drawn, the others are lost
Block(name, color, wins, size) ==
  LET won == SidedGame(name, color, "win", "resigned")
      drawn == SidedGame(name, color, "agreed", "agreed")
      lost == SidedGame(name, color, "checkmated", "win")
  IN [k \in 1..size |-> IF k <= wins THEN won ELSE IF k = wins + 1 THEN drawn ELSE lost]

\* how the blocks of a long list differ: the wins of the j-th opening, and
\* the color the player has in its games
ListShapes ==
  { [wins |-> "ascending", color |-> "white"],
    [wins |-> "descending", color |-> "black"],
    [wins |-> "zigzag", color |-> "alternate"] }

WinsOf(shape, j) ==
  CASE shape.wins = "ascending" -> j
    [] shape.wins = "descending" -> NumOpenings + 1 - j
    [] OTHER -> (7 * j) % 16

ColorOf(shape, j) ==
  IF shape.color = "alternate" THEN (IF j % 2 = 1 THEN "white" ELSE "black")
  ELSE shape.color

\* a long list of games: one block per opening, of 15 or 16 games each
LongList(sizes, shape) ==
  Flat([j \in 1..NumOpenings |->
          Block(OpeningNames[j], ColorOf(shape, j), WinsOf(shape, j), sizes[j])])

Histories == UNION {[1..n -> {MoveTo(f) : f \in Fens}] : n \in 1..MaxPlies}

PgnInputs == {EmptyPgn, HeaderOnlyPgn, MalformedPgn} \cup {MovesPgn(h) : h \in Histories}

-----------------------------------------------------------------------------
(* The analyzer's functions, called on their own. *)

NoGame == [n |-> 0, game |-> Null]

\* the four empty structures main starts from
EmptyBuilt == [epdLookup |-> <<>>, ecoLookup |-> <<>>, categoryLookup |-> <<>>,
               openingList |-> <<>>]

\* identifyOpening(pgn) is called
IdentifyCall ==
  /\ pc = "identifyOpening"
  /\ identified' = IdentifyOpening(epdLookup, pgn)
  /\ pc' = IF identified'.threw THEN "identifyOpening.threw" ELSE "identifyOpening.returned"
  /\ UNCHANGED <<dataset, promises, completed, rows, built, dirExists, writes, files,
                 archiveList, epdLookup, games, openingStats, cur, analyzedGames, pgn>>

InitIdentify ==
  /\ pc = "identifyOpening"
  /\ epdLookup \in EpdIndexes
  /\ pgn \in PgnInputs
  /\ identified = Null
  /\ dataset = 0 /\ promises = <<>> /\ completed = <<>> /\ rows = <<>>
  /\ built = EmptyBuilt /\ dirExists = FALSE /\ writes = <<>> /\ files = {}
  /\ archiveList = <<>> /\ games = <<>> /\ openingStats = EmptyOpeningStats
  /\ cur = NoGame /\ analyzedGames = Null

NextIdentify == IdentifyCall

SpecIdentify == InitIdentify /\ [][NextIdentify]_vars

\* one iteration of games.forEach, on the next game of the list
ForEachStep ==
  /\ pc = "analyzeGames.forEach"
  /\ cur.n < MaxGames
  /\ \E game \in GameInputs :
       /\ openingStats' = ForEachGame(openingStats, USERNAME, game)
       /\ cur' = [n |-> cur.n + 1, game |-> game]
  /\ UNCHANGED <<pc, dataset, promises, completed, rows, built, dirExists, writes, files,
                 archiveList, epdLookup, games, analyzedGames, pgn, identified>>

\* the list is exhausted: sort, slice, format, return
ForEachReturn ==
  /\ pc = "analyzeGames.forEach"
  /\ analyzedGames' = Summary(openingStats)
  /\ pc' = "analyzeGames.returned"
  /\ UNCHANGED <<dataset, promises, completed, rows, built, dirExists, writes, files,
                 archiveList, epdLookup, games, openingStats, cur, pgn, identified>>

InitAnalyze ==
  /\ pc = "analyzeGames.forEach"
  /\ openingStats = EmptyOpeningStats
  /\ cur = NoGame
  /\ analyzedGames = Null
  /\ dataset = 0 /\ promises = <<>> /\ completed = <<>> /\ rows = <<>>
  /\ built = EmptyBuilt /\ dirExists = FALSE /\ writes = <<>> /\ files = {}
  /\ archiveList = <<>> /\ games = <<>> /\ epdLookup = <<>>
  /\ pgn = EmptyPgn /\ identified = Null

NextAnalyze == ForEachStep \/ ForEachReturn

SpecAnalyze == InitAnalyze /\ [][NextAnalyze]_vars

\* analyzeGames(USERNAME, games), as one call
AnalyzeGamesCall ==
  /\ pc = "analyzeGames"
  /\ openingStats' = ForEach(EmptyOpeningStats, USERNAME, games)
  /\ analyzedGames' = Summary(openingStats')
  /\ pc' = "analyzeGames.returned"
  /\ UNCHANGED <<dataset, promises, completed, rows, built, dirExists, writes, files,
                 archiveList, epdLookup, games, cur, pgn, identified>>

InitTop ==
  /\ pc = "analyzeGames"
  /\ \E sizes \in [1..NumOpenings -> {MinTotal, MinTotal + 1}], shape \in ListShapes :
       games = LongList(sizes, shape)
  /\ openingStats = EmptyOpeningStats
  /\ cur = NoGame
  /\ analyzedGames = Null
  /\ dataset = 0 /\ promises = <<>> /\ completed = <<>> /\ rows = <<>>
  /\ built = EmptyBuilt /\ dirExists = FALSE /\ writes = <<>> /\ files = {}
  /\ archiveList = <<>> /\ epdLookup = <<>>
  /\ pgn = EmptyPgn /\ identified = Null

NextTop == AnalyzeGamesCall

SpecTop == InitTop /\ [][NextTop]_vars

-----------------------------------------------------------------------------
(* Claims about the analyzer's functions. *)

Colors == {"white", "black"}

\* the buckets of a color, as a set of Stats
BucketsOf(color) == {openingStats[color][i].value : i \in 1..Len(openingStats[color])}

\* C1: after any prefix of any list of games, every Stats bucket of either
\* color has total = wins + losses + draws.
C1_TotalIsSum ==
  \A color \in Colors : \A s \in BucketsOf(color) :
    s.total = s.wins + s.losses + s.draws

\* a bucket that has counted a win, a loss and a draw
C1_Witness ==
  /\ pc = "analyzeGames.forEach"
  /\ \E color \in Colors : \E s \in BucketsOf(color) :
       s.wins = 1 /\ s.losses = 1 /\ s.draws = 1 /\ s.total = 3

Max(S) == CHOOSE x \in S : \A y \in S : y <= x

\* the plies of the call's move text whose position code is a key of the index
C2_Hits ==
  {i \in 1..Len(pgn.moves) : SubSeq(pgn.moves[i].after, 1, 4) \in DOMAIN epdLookup}

\* C2: identifyOpening returns the opening the index holds for the deepest ply
\* whose 4-field position code is a key of the index; no match when no ply's
\* code is a key, when there are no plies, and when the move text is empty, in
\* which case the replay engine is not invoked.
C2_DeepestMatch ==
  pc = "identifyOpening.returned" =>
    /\ (pgn.text = "" => Falsy(identified.result) /\ ~identified.engine)
    /\ (Len(pgn.moves) = 0 => Falsy(identified.result))
    /\ (C2_Hits = {} => Falsy(identified.result))
    /\ (C2_Hits # {} =>
          identified.result = epdLookup[SubSeq(pgn.moves[Max(C2_Hits)].after, 1, 4)])

\* a call whose deepest matching ply is not the last one, with a shallower
\* ply that matches another opening
C2_Witness ==
  /\ pc = "identifyOpening.returned"
  /\ C2_Hits # {}
  /\ Max(C2_Hits) < Len(pgn.moves)
  /\ \E i \in C2_Hits :
       /\ i < Max(C2_Hits)
       /\ epdLookup[SubSeq(pgn.moves[i].after, 1, 4)] # identified.result

\* the stats of the opening an output entry names
C4_StatsOf(color, entry) ==
  openingStats[color][CHOOSE i \in 1..Len(openingStats[color]) :
                        openingStats[color][i].key = entry.openingName].value

\* C4: each of the two lists analyzeGames returns has at most 10 entries, names
\* only openings whose bucket total is greater than 15, and is ordered by
\* non-increasing win rate wins/total.
C4_TopLists ==
  pc = "analyzeGames.returned" =>
    \A color \in Colors :
      LET out == analyzedGames[color]
      IN /\ Len(out) <= 10
         /\ \A i \in 1..Len(out) :
              /\ \E k \in 1..Len(openingStats[color]) :
                   openingStats[color][k].key = out[i].openingName
              /\ C4_StatsOf(color, out[i]).total > 15
         /\ \A i \in 1..(Len(out) - 1) :
              C4_StatsOf(color, out[i]).wins * C4_StatsOf(color, out[i + 1]).total
                >= C4_StatsOf(color, out[i + 1]).wins * C4_StatsOf(color, out[i]).total

\* eleven white openings played 16 times each, first seen in the order of
\* increasing win rate: the list keeps ten of them, best first
C4_Witness ==
  /\ pc = "analyzeGames.returned"
  /\ Len(analyzedGames.white) = 10
  /\ Cardinality({i \in 1..Len(openingStats.white) :
                    openingStats.white[i].value.total > 15}) > 10
  /\ analyzedGames.white[1].openingName # openingStats.white[1].key
  /\ C4_StatsOf("white", analyzedGames.white[1]).wins
       > C4_StatsOf("white", analyzedGames.white[10]).wins

\* the counters of the bucket (color, name) of an accumulator, zero if absent
C6_Counters(stats, color, name) ==
  IF \E i \in 1..Len(stats[color]) : stats[color][i].key = name
  THEN stats[color][CHOOSE i \in 1..Len(stats[color]) : stats[color][i].key = name].value
  ELSE [total |-> 0, wins |-> 0, losses |-> 0, draws |-> 0]

\* the color the analyzed player has in a game
C6_Side(game) ==
  IF ToLowerCase(game.white.username) = ToLowerCase(USERNAME) THEN "white" ELSE "black"

C6_Step ==
  (pc = "analyzeGames.forEach" /\ pc' = "analyzeGames.forEach" /\ ~Falsy(cur'.game.opening)) =>
    LET game == cur'.game
        side == C6_Side(game)
        other == IF side = "white" THEN "black" ELSE "white"
        old == C6_Counters(openingStats, side, game.opening.name)
        new == C6_Counters(openingStats', side, game.opening.name)
        equal == game.white.result = game.black.result
        won == ~equal /\ game[side].result = "win"
    IN /\ new.draws = old.draws + (IF equal THEN 1 ELSE 0)
       /\ new.wins = old.wins + (IF won THEN 1 ELSE 0)
       /\ new.losses = old.losses + (IF ~equal /\ ~won THEN 1 ELSE 0)
       /\ new.total = old.total + 1
       /\ openingStats'[other] = openingStats[other]

\* C6: a game with a matched opening increments exactly one outcome counter of
\* the player's bucket: draws when the two result strings are equal (also when
\* both are "win"), else wins when the player's string is "win", else losses.
C6_OneOutcome == [][C6_Step]_vars

\* a game both of whose result strings are "win" has just been counted
C6_Witness ==
  /\ pc = "analyzeGames.forEach"
  /\ cur.n >= 1
  /\ ~Falsy(cur.game.opening)
  /\ cur.game.white.result = "win" /\ cur.game.black.result = "win"
  /\ C6_Counters(openingStats, C6_Side(cur.game), cur.game.opening.name).draws >= 1

C8_Step ==
  (pc = "analyzeGames.forEach" /\ pc' = "analyzeGames.forEach" /\ Falsy(cur'.game.opening)) =>
    openingStats' = openingStats

\* C8: a game with no matched opening leaves every bucket of both colors
\* unchanged and creates no bucket.
C8_UnmatchedSkipped == [][C8_Step]_vars

\* a game without an opening has been passed over after one that was counted
C8_Witness ==
  /\ pc = "analyzeGames.forEach"
  /\ cur.n >= 2
  /\ Falsy(cur.game.opening)
  /\ \E color \in Colors : openingStats[color] # <<>>

-----------------------------------------------------------------------------
(* The event loop and the fan-out tasks shared by both scripts. *)

\* HTTP statuses the servers answer with
Statuses == {200, 404}

\* a response whose status is never looked at
ResOkUnchecked(res) == TRUE

\* res.ok
ResOk(res) == res.status >= 200 /\ res.status <= 299

IdleTask == [st |-> "idle", res |-> [status |-> 0], val |-> <<>>]

\* a loop that awaits each task before it starts the next lets a continuation
\* run while the mapping is under way
CallStackEmptyInLoop ==
  pc \in {"fetchGames.map", "fetchGames.all", "fetchOpenings.map", "fetchOpenings.all",
          "main.writes", "main.writes.all", "main.caught", "main.done"}

\* A continuation after an await runs only when the synchronous code has run
\* to its end: the script is suspended at the await of Promise.all, or main
\* has returned. (The analyzer's process ends when its top-level await fails
\* or its last statement has run.)
CallStackEmpty ==
  pc \in {"fetchGames.all", "fetchOpenings.all", "main.writes.all", "main.caught",
          "main.done"}

\* the next call of the async callback by Array.prototype.map: it runs to its
\* first await, which dispatches the fetch
Dispatch ==
  /\ pc \in {"fetchGames.map", "fetchOpenings.map"}
  /\ \E i \in 1..Len(promises) :
       /\ promises[i].st = "idle"
       /\ \A j \in 1..(i - 1) : promises[j].st # "idle"
       /\ promises' = [promises EXCEPT ![i].st = "fetching"]
  /\ UNCHANGED <<pc, dataset, completed, rows, built, dirExists, writes, files,
                 archiveList, epdLookup, games, openingStats, cur, analyzedGames,
                 pgn, identified>>

\* map has returned the array of promises and Promise.all of it is awaited
AwaitAll ==
  /\ pc \in {"fetchGames.map", "fetchOpenings.map"}
  /\ \A i \in 1..Len(promises) : promises[i].st # "idle"
  /\ pc' = IF pc = "fetchGames.map" THEN "fetchGames.all" ELSE "fetchOpenings.all"
  /\ UNCHANGED <<dataset, promises, completed, rows, built, dirExists, writes, files,
                 archiveList, epdLookup, games, openingStats, cur, analyzedGames,
                 pgn, identified>>

\* the server's response to a dispatched fetch arrives
Respond ==
  /\ pc # "fetchGames.failed"
  /\ \E i \in 1..Len(promises), status \in Statuses :
       /\ promises[i].st = "fetching"
       /\ promises' = [promises EXCEPT ![i].st = "responded", ![i].res = [status |-> status]]
  /\ UNCHANGED <<pc, dataset, completed, rows, built, dirExists, writes, files,
                 archiveList, epdLookup, games, openingStats, cur, analyzedGames,
                 pgn, identified>>

\* the value of Promise.all if it took the results in the order they arrived
PromiseAllByArrival == [k \in 1..Len(completed) |-> promises[completed[k]].val]

\* the value Promise.all resolves with: the results by position
PromiseAllValue == [i \in 1..Len(promises) |-> promises[i].val]

AllResolved == \A i \in 1..Len(promises) : promises[i].st = "resolved"

SomeRejected == \E i \in 1..Len(promises) : promises[i].st = "rejected"

-----------------------------------------------------------------------------
(* The analyzer: fetchGames, then analyzeGames. *)

ArchiveUrls ==
  << "games/2024/01", "games/2024/02", "games/2024/03", "games/2024/04",
     "games/2024/05", "games/2024/06", "games/2024/07", "games/2024/08" >>

\* the literal of slice(-6)
RecentArchives == 6

\* the imported data/external/epd-lookup.json
EpdLookupJson ==
  IndexOf({ Opening(<<"C", "5", "0">>, "Italian Game", <<"pos1", "b", "KQkq", "e3", "0", "1">>),
            Opening(<<"B", "2", "0">>, "Sicilian Defense", <<"pos2", "w", "KQkq", "-", "0", "2">>) })

FetchedGame(archive, n, rules, p, whiteName, whiteResult, blackName, blackResult) ==
  [url |-> <<archive, n>>, rules |-> rules, pgn |-> p,
   white |-> [username |-> whiteName, result |-> whiteResult],
   black |-> [username |-> blackName, result |-> blackResult]]

\* the games the archive holds
ArchiveGames(archive) ==
  << FetchedGame(archive, 1, "chess",
                 MovesPgn(<<MoveTo(<<"pos1", "b", "KQkq", "e3", "0", "1">>),
                            MoveTo(<<"pos3", "b", "kq", "-", "1", "2">>)>>),
                 "ShomidaMoney", "win", "rival", "resigned"),
     FetchedGame(archive, 2, "chess960",
                 MovesPgn(<<MoveTo(<<"pos2", "w", "KQkq", "-", "0", "2">>)>>),
                 "rival", "win", "ShomidaMoney", "checkmated"),
     FetchedGame(archive, 3, "chess",
                 MovesPgn(<<MoveTo(<<"pos2", "w", "KQkq", "-", "4", "6">>)>>),
                 "rival", "agreed", "ShomidaMoney", "agreed"),
     FetchedGame(archive, 4, "chess", EmptyPgn,
                 "ShomidaMoney", "timeout", "rival", "win") >>

\* what the body of an archive response can be
ArchiveBodies == {"games", "games with a malformed pgn", "not the games shape", "not json"}

\* gamesJson.games, for a body that is JSON of the expected shape
BodyGames(archive, body) ==
  IF body = "games with a malformed pgn"
  THEN Append(ArchiveGames(archive),
              FetchedGame(archive, 5, "chess", MalformedPgn,
                          "ShomidaMoney", "win", "rival", "resigned"))
  ELSE ArchiveGames(archive)

\* Object.assign({ opening: identifyOpening(game.pgn) }, game)
WithOpening(game) ==
  [url |-> game.url, rules |-> game.rules, pgn |-> game.pgn, white |-> game.white,
   black |-> game.black, opening |-> IdentifyOpening(epdLookup, game.pgn).result]

RECURSIVE ReduceGames(_, _)
\* gamesData.games.reduce(...): the standard-chess games, each with its opening
ReduceGames(results, gs) ==
  IF gs = <<>> THEN results
  ELSE ReduceGames(IF Head(gs).rules = "chess" THEN Append(results, WithOpening(Head(gs)))
                   ELSE results,
                   Tail(gs))

\* whether the callback of a task throws on the body it is given
ArchiveThrows(archive, body) ==
  \/ body \in {"not the games shape", "not json"}
  \/ \E i \in 1..Len(BodyGames(archive, body)) :
       /\ BodyGames(archive, body)[i].rules = "chess"
       /\ IdentifyOpening(epdLookup, BodyGames(archive, body)[i].pgn).threw

\* fetch of the archive list is dispatched; its response arrives and is parsed
FetchArchiveList ==
  /\ pc = "fetchGames"
  /\ \/ /\ pc' = "fetchGames.failed"
        /\ UNCHANGED <<archiveList, promises>>
     \/ \E n \in 0..MaxArchives :
          /\ archiveList' = SubSeq(ArchiveUrls, 1, n)
          /\ promises' = [i \in 1..Len(SliceLast(archiveList', RecentArchives)) |-> IdleTask]
          /\ pc' = "fetchGames.map"
  /\ UNCHANGED <<dataset, completed, rows, built, dirExists, writes, files,
                 epdLookup, games, openingStats, cur, analyzedGames, pgn, identified>>

\* a task of fetchGames resumes with its response and calls res.json()
ResumeArchive ==
  /\ pc \in {"fetchGames.map", "fetchGames.all"}
  /\ CallStackEmpty
  /\ \E i \in 1..Len(promises) :
       /\ promises[i].st = "responded"
       /\ promises' = [promises EXCEPT ![i].st = "reading"]
  /\ UNCHANGED <<pc, dataset, completed, rows, built, dirExists, writes, files,
                 archiveList, epdLookup, games, openingStats, cur, analyzedGames,
                 pgn, identified>>

\* res.json() settles; the task parses the body and reduces the games
ReadArchive ==
  /\ pc \in {"fetchGames.map", "fetchGames.all"}
  /\ CallStackEmpty
  /\ \E i \in 1..Len(promises), body \in ArchiveBodies :
       LET archive == SliceLast(archiveList, RecentArchives)[i]
       IN /\ promises[i].st = "reading"
          /\ promises' =
               IF ArchiveThrows(archive, body)
               THEN [promises EXCEPT ![i].st = "rejected"]
               ELSE [promises EXCEPT ![i].st = "resolved",
                                     ![i].val = ReduceGames(<<>>, BodyGames(archive, body))]
          /\ completed' = Append(completed, i)
  /\ UNCHANGED <<pc, dataset, rows, built, dirExists, writes, files,
                 archiveList, epdLookup, games, openingStats, cur, analyzedGames,
                 pgn, identified>>

\* Promise.all rejects with the first rejection: the top-level await throws
FetchGamesFails ==
  /\ pc = "fetchGames.all"
  /\ SomeRejected
  /\ pc' = "fetchGames.failed"
  /\ UNCHANGED <<dataset, promises, completed, rows, built, dirExists, writes, files,
                 archiveList, epdLookup, games, openingStats, cur, analyzedGames,
                 pgn, identified>>

\* Promise.all resolves: flat(), and fetchGames returns the games
FetchGamesReturns ==
  /\ pc = "fetchGames.all"
  /\ AllResolved
  /\ games' = Flat(PromiseAllValue)
  /\ pc' = "analyzeGames"
  /\ UNCHANGED <<dataset, promises, completed, rows, built, dirExists, writes, files,
                 archiveList, epdLookup, openingStats, cur, analyzedGames,
                 pgn, identified>>

-----------------------------------------------------------------------------
(* scripts/generate-data.ts *)

Categories == <<"a", "b", "c", "d", "e">>

\* the openings datasets the model lets the remote TSV files hold
Datasets == {1, 2, 3}

HeaderLine == <<"eco", "name", "pgn">>

\* an empty line of a TSV file
BlankLine == <<>>

PgnA == MovesPgn(<<MoveTo(<<"pos1", "b", "KQkq", "-", "0", "1">>)>>)

PgnB == MovesPgn(<<MoveTo(<<"pos1", "b", "KQkq", "e3", "0", "1">>),
                   MoveTo(<<"pos2", "w", "KQkq", "-", "0", "2">>)>>)

\* reaches the position of PgnB with other move counters
PgnC == MovesPgn(<<MoveTo(<<"pos3", "b", "kq", "-", "1", "2">>),
                   PromotionTo(<<"pos2", "w", "KQkq", "-", "4", "6">>)>>)

\* the lines of the category's file: the rows as split at the tabs
Tsv(ds, category) ==
  CASE ds = 1 /\ category = "a" ->
         << HeaderLine, <<<<"A", "0", "0">>, "Polish Opening", PgnA>>,
            <<<<"A", "0", "0">>, "Polish Opening: Outflank", PgnB>>, BlankLine >>
    [] ds = 1 /\ category = "b" ->
         << HeaderLine, <<<<"B", "2", "0">>, "Sicilian Defense", PgnC>>, BlankLine >>
    [] ds = 1 /\ category = "c" ->
         << HeaderLine, <<<<"C", "5", "0">>, "Italian Game", HeaderOnlyPgn>>, BlankLine >>
    [] ds = 2 /\ category = "a" ->
         << HeaderLine, <<<<"a", "0", "1">>, "Nimzo-Larsen Attack", PgnA, "extra">>,
            BlankLine, <<<<"A", "0", "2">>, "Bird Opening", PgnC>> >>
    [] ds = 2 /\ category = "d" ->
         << HeaderLine, <<<<"D", "0", "0">>, "Queen's Pawn Game", PgnB>>,
            <<<<"A", "0", "2">>, "Bird Opening: Dutch", PgnB>> >>
    [] ds = 2 /\ category = "e" -> << BlankLine >>
    [] ds = 3 /\ category = "c" ->
         << HeaderLine, <<<<"C", "0", "0">>, "French Defense", MalformedPgn>>, BlankLine >>
    [] OTHER -> << HeaderLine, BlankLine >>

\* String.prototype.toUpperCase on the letters of the model
ToUpperCase(ch) ==
  CASE ch = "a" -> "A" [] ch = "b" -> "B" [] ch = "c" -> "C" [] ch = "d" -> "D"
    [] ch = "e" -> "E" [] OTHER -> ch

RECURSIVE Uci(_)
\* the reduce over the history: from, to and the promotion letter if any
Uci(history) ==
  IF history = <<>> THEN <<>>
  ELSE (IF Head(history).promotion # ""
        THEN <<Head(history).from, Head(history).to, Head(history).promotion>>
        ELSE <<Head(history).from, Head(history).to>>) \o Uci(Tail(history))

\* the openingData processRows hands to the handler for a row
OpeningDataOf(row) ==
  [eco |-> row[1], name |-> row[2], pgn |-> row[3],
   epd |-> Epd(FinalFen(row[3])), uci |-> Uci(History(row[3]))]

\* the array under a key of a lookup, created when it is missing
ListAt(lookup, k) == IF ObjHas(lookup, k) THEN ObjGet(lookup, k) ELSE <<>>

\* main's handler
Handler(b, openingData) ==
  LET eco == openingData.eco
      category == << ToUpperCase(eco[1]) >>   \* eco.charAt(0).toUpperCase(), a one-letter string
  IN [epdLookup |-> ObjSet(b.epdLookup, openingData.epd, openingData),
      ecoLookup |-> ObjSet(b.ecoLookup, eco, Append(ListAt(b.ecoLookup, eco), openingData)),
      categoryLookup |-> ObjSet(b.categoryLookup, category,
                                Append(ListAt(b.categoryLookup, category), openingData)),
      openingList |-> Append(b.openingList, openingData)]

RECURSIVE ProcessRowsFrom(_, _)
\* processRows(rows, handler)
ProcessRowsFrom(b, rs) ==
  IF rs = <<>> THEN b ELSE ProcessRowsFrom(Handler(b, OpeningDataOf(Head(rs))), Tail(rs))

\* chess.loadPgn throws on some row
ProcessRowsThrows(rs) == \E i \in 1..Len(rs) : ~rs[i][3].valid

\* the keys of the category-letter map in place of those of the ECO map
CategoryKeys(b) == ObjectKeys(b.categoryLookup)

\* Object.keys(ecoLookup), the data of eco-list.json
EcoKeys(b) == ObjectKeys(b.ecoLookup)

\* the five writeToData calls of main, in the order of the array literal
WriteCalls(b) ==
  << [file |-> "opening-list.json", data |-> b.openingList],
     [file |-> "eco-lookup.json", data |-> b.ecoLookup],
     [file |-> "category-lookup.json", data |-> b.categoryLookup],
     [file |-> "epd-lookup.json", data |-> b.epdLookup],
     [file |-> "eco-list.json", data |-> EcoKeys(b)] >>

\* main calls fetchOpenings
MainStart ==
  /\ pc = "main"
  /\ promises' = [i \in 1..Len(Categories) |-> IdleTask]
  /\ pc' = "fetchOpenings.map"
  /\ UNCHANGED <<dataset, completed, rows, built, dirExists, writes, files,
                 archiveList, epdLookup, games, openingStats, cur, analyzedGames,
                 pgn, identified>>

\* a task of fetchOpenings resumes with its response: it throws if the
\* response is not ok, and calls res.text() otherwise
ResumeCategory ==
  /\ pc \in {"fetchOpenings.map", "fetchOpenings.all", "main.caught"}
  /\ CallStackEmpty
  /\ \E i \in 1..Len(promises) :
       /\ promises[i].st = "responded"
       /\ IF ResOk(promises[i].res)
          THEN promises' = [promises EXCEPT ![i].st = "reading"] /\ UNCHANGED completed
          ELSE /\ promises' = [promises EXCEPT ![i].st = "rejected"]
               /\ completed' = Append(completed, i)
  /\ UNCHANGED <<pc, dataset, rows, built, dirExists, writes, files,
                 archiveList, epdLookup, games, openingStats, cur, analyzedGames,
                 pgn, identified>>

\* res.text() settles: split("\n").slice(1)
ReadCategory ==
  /\ pc \in {"fetchOpenings.map", "fetchOpenings.all", "main.caught"}
  /\ CallStackEmpty
  /\ \E i \in 1..Len(promises) :
       /\ promises[i].st = "reading"
       /\ promises' = [promises EXCEPT ![i].st = "resolved",
                                       ![i].val = SliceFrom1(Tsv(dataset, Categories[i]))]
       /\ completed' = Append(completed, i)
  /\ UNCHANGED <<pc, dataset, rows, built, dirExists, writes, files,
                 archiveList, epdLookup, games, openingStats, cur, analyzedGames,
                 pgn, identified>>

\* Promise.all rejects: fetchOpenings logs and rethrows, main's catch logs
FetchOpeningsFails ==
  /\ pc = "fetchOpenings.all"
  /\ SomeRejected
  /\ pc' = "main.caught"
  /\ UNCHANGED <<dataset, promises, completed, rows, built, dirExists, writes, files,
                 archiveList, epdLookup, games, openingStats, cur, analyzedGames,
                 pgn, identified>>

\* Promise.all resolves: flat().filter(Boolean), and fetchOpenings returns
FetchOpeningsReturns ==
  /\ pc = "fetchOpenings.all"
  /\ AllResolved
  /\ rows' = LET all == Flat(PromiseAllValue)
             IN SelectSeqOf(all, Range(all) \ {BlankLine})
  /\ pc' = "main.processRows"
  /\ UNCHANGED <<dataset, promises, completed, built, dirExists, writes, files,
                 archiveList, epdLookup, games, openingStats, cur, analyzedGames,
                 pgn, identified>>

\* processRows(rows, handler) and existsSync(DATA_DIR)
ProcessRows ==
  /\ pc = "main.processRows"
  /\ IF ProcessRowsThrows(rows)
     THEN pc' = "main.caught" /\ UNCHANGED <<built, dirExists>>
     ELSE /\ built' = ProcessRowsFrom(EmptyBuilt, rows)
          /\ \E exists \in BOOLEAN : dirExists' = exists
          /\ pc' = IF dirExists' THEN "main.writes" ELSE "main.mkdir"
  /\ UNCHANGED <<dataset, promises, completed, rows, writes, files,
                 archiveList, epdLookup, games, openingStats, cur, analyzedGames,
                 pgn, identified>>

\* await fs.mkdir(DATA_DIR, { recursive: true }) settles
Mkdir ==
  /\ pc = "main.mkdir"
  /\ \/ dirExists' = TRUE /\ pc' = "main.writes"
     \/ pc' = "main.caught" /\ UNCHANGED dirExists
  /\ UNCHANGED <<dataset, promises, completed, rows, built, writes, files,
                 archiveList, epdLookup, games, openingStats, cur, analyzedGames,
                 pgn, identified>>

\* the next writeToData call of the array literal: it runs to its await, which
\* dispatches fs.writeFile
DispatchWrite ==
  /\ pc = "main.writes"
  /\ Len(writes) < Len(WriteCalls(built))
  /\ writes' = Append(writes, [st |-> "writing",
                               file |-> WriteCalls(built)[Len(writes) + 1].file,
                               data |-> WriteCalls(built)[Len(writes) + 1].data])
  /\ UNCHANGED <<pc, dataset, promises, completed, rows, built, dirExists, files,
                 archiveList, epdLookup, games, openingStats, cur, analyzedGames,
                 pgn, identified>>

\* the array is built and Promise.all of it is awaited
AwaitWrites ==
  /\ pc = "main.writes"
  /\ Len(writes) = Len(WriteCalls(built))
  /\ pc' = "main.writes.all"
  /\ UNCHANGED <<dataset, promises, completed, rows, built, dirExists, writes, files,
                 archiveList, epdLookup, games, openingStats, cur, analyzedGames,
                 pgn, identified>>

\* fs.writeFile of a task settles and the task resumes: the file is written
\* and logged, or the error is logged and rethrown
ResumeWrite ==
  /\ pc \in {"main.writes", "main.writes.all", "main.caught", "main.done"}
  /\ CallStackEmpty
  /\ \E k \in 1..Len(writes) :
       /\ writes[k].st = "writing"
       /\ \/ /\ writes' = [writes EXCEPT ![k].st = "resolved"]
             /\ files' = {f \in files : f.file # writes[k].file}
                            \cup {[file |-> writes[k].file, data |-> writes[k].data]}
          \/ /\ writes' = [writes EXCEPT ![k].st = "rejected"]
             /\ UNCHANGED files
  /\ UNCHANGED <<pc, dataset, promises, completed, rows, built, dirExists,
                 archiveList, epdLookup, games, openingStats, cur, analyzedGames,
                 pgn, identified>>

\* Promise.all of the writes rejects with the first rejection: main's catch
WritesFail ==
  /\ pc = "main.writes.all"
  /\ \E k \in 1..Len(writes) : writes[k].st = "rejected"
  /\ pc' = "main.caught"
  /\ UNCHANGED <<dataset, promises, completed, rows, built, dirExists, writes, files,
                 archiveList, epdLookup, games, openingStats, cur, analyzedGames,
                 pgn, identified>>

\* Promise.all of the writes resolves: main logs the success and returns
WritesDone ==
  /\ pc = "main.writes.all"
  /\ \A k \in 1..Len(writes) : writes[k].st = "resolved"
  /\ pc' = "main.done"
  /\ UNCHANGED <<dataset, promises, completed, rows, built, dirExists, writes, files,
                 archiveList, epdLookup, games, openingStats, cur, analyzedGames,
                 pgn, identified>>

-----------------------------------------------------------------------------
(* The two scripts. *)

\* one of the two scripts is started
Init ==
  /\ pc \in {"main", "fetchGames"}
  /\ dataset \in (IF pc = "main" THEN Datasets ELSE {0})
  /\ epdLookup = (IF pc = "main" THEN <<>> ELSE EpdLookupJson)
  /\ promises = <<>> /\ completed = <<>> /\ rows = <<>>
  /\ built = EmptyBuilt /\ dirExists = FALSE /\ writes = <<>> /\ files = {}
  /\ archiveList = <<>> /\ games = <<>> /\ openingStats = EmptyOpeningStats
  /\ cur = NoGame /\ analyzedGames = Null
  /\ pgn = EmptyPgn /\ identified = Null

Next ==
  \/ MainStart \/ Dispatch \/ AwaitAll \/ Respond
  \/ ResumeCategory \/ ReadCategory \/ FetchOpeningsFails \/ FetchOpeningsReturns
  \/ ProcessRows \/ Mkdir \/ DispatchWrite \/ AwaitWrites \/ ResumeWrite
  \/ WritesFail \/ WritesDone
  \/ FetchArchiveList \/ ResumeArchive \/ ReadArchive \/ FetchGamesFails
  \/ FetchGamesReturns \/ AnalyzeGamesCall

Spec == Init /\ [][Next]_vars

-----------------------------------------------------------------------------
(* Claims about the two scripts. *)

AnalyzerPcs ==
  {"fetchGames", "fetchGames.map", "fetchGames.all", "fetchGames.failed",
   "analyzeGames", "analyzeGames.returned"}

FetchGamesReturned == pc \in {"analyzeGames", "analyzeGames.returned"}

\* the archives fetchGames fetched, in dispatch order
C5_Selected == SubSeq(archiveList, Len(archiveList) - Len(promises) + 1, Len(archiveList))

\* the place of an archive in the dispatch order
C5_Place(archive) == CHOOSE i \in 1..Len(C5_Selected) : C5_Selected[i] = archive

\* the data lines of a category's file: all but the first, the empty ones left out
C5_DataLines(category) ==
  LET lines == Tsv(dataset, category)
      kept == {i \in 2..Len(lines) : lines[i] # <<>>}
      nth(k) == CHOOSE i \in kept : Cardinality({j \in kept : j < i}) = k - 1
  IN [k \in 1..Cardinality(kept) |-> lines[nth(k)]]

\* C5: whatever the order in which the fetches complete, fetchGames returns the
\* games in archive order and then in the order within the archive, and
\* fetchOpenings returns the rows in category order a..e and then row order.
C5_DispatchOrder ==
  /\ FetchGamesReturned =>
       /\ \A i, j \in 1..Len(games) :
            i < j =>
              \/ C5_Place(games[i].url[1]) < C5_Place(games[j].url[1])
              \/ /\ games[i].url[1] = games[j].url[1]
                 /\ games[i].url[2] < games[j].url[2]
       /\ {games[i].url : i \in 1..Len(games)} =
            {ArchiveGames(a)[n].url :
               a \in {C5_Selected[i] : i \in 1..Len(C5_Selected)},
               n \in {m \in 1..4 : ArchiveGames("games/2024/01")[m].rules = "chess"}}
  /\ pc \in {"main.processRows", "main.mkdir", "main.writes", "main.writes.all",
             "main.done"} =>
       rows = C5_DataLines("a") \o C5_DataLines("b") \o C5_DataLines("c")
                \o C5_DataLines("d") \o C5_DataLines("e")

\* fetchGames has returned the games of three archives whose fetches completed
\* in the reverse of the dispatch order
C5_Witness ==
  /\ FetchGamesReturned
  /\ Len(promises) = 3
  /\ completed = <<3, 2, 1>>
  /\ Len(games) = 9

\* C3 (as claimed): if the fetch of one of the selected archives returns HTTP
\* 404, fetchGames fails and returns no games.
C3_AbortOn404 ==
  (pc \in AnalyzerPcs /\ \E i \in 1..Len(promises) : promises[i].res.status = 404) =>
    (~FetchGamesReturned /\ games = <<>>)

BuilderPcs ==
  {"main", "fetchOpenings.map", "fetchOpenings.all", "main.processRows", "main.mkdir",
   "main.writes", "main.writes.all", "main.caught", "main.done"}

\* a category fetch has been answered with a status outside 200..299
C7_SomeCategoryNotOk ==
  /\ pc \in BuilderPcs
  /\ \E i \in 1..Len(promises) :
       /\ promises[i].st \notin {"idle", "fetching"}
       /\ (promises[i].res.status < 200 \/ promises[i].res.status > 299)

\* C7: if the fetch of one of the five categories returns a non-success status,
\* no output file is ever written in that run (no write is even dispatched, and
\* main does not end in success), whatever the other four fetches do.
C7_NoPartialOutput ==
  C7_SomeCategoryNotOk =>
    /\ files = {}
    /\ writes = <<>>
    /\ pc \notin {"main.processRows", "main.mkdir", "main.writes", "main.writes.all",
                  "main.done"}

\* one category answered 404, the other four were read to the end, and main
\* has caught the failure
C7_Witness ==
  /\ pc = "main.caught"
  /\ Cardinality({i \in 1..Len(promises) : promises[i].res.status = 404}) = 1
  /\ Cardinality({i \in 1..Len(promises) : promises[i].st = "resolved"}) = 4
  /\ files = {}

\* whether a list holds no value twice
C9_NoDuplicates(list) == \A i, j \in 1..Len(list) : list[i] = list[j] => i = j

\* C9 (as claimed): the fifth output holds each key of the category-letter
\* index exactly once and nothing else.
C9_CategoryKeyList ==
  \A f \in files :
    f.file = "eco-list.json" =>
      /\ C9_NoDuplicates(f.data)
      /\ {f.data[i] : i \in 1..Len(f.data)} =
           {built.categoryLookup[i].key : i \in 1..Len(built.categoryLookup)}

\* C9 (amended): the fifth output holds each key of the ECO-code index, that is
\* each ECO code of a folded record, exactly once and nothing else.
C9_EcoCodeList ==
  \A f \in files :
    f.file = "eco-list.json" =>
      /\ C9_NoDuplicates(f.data)
      /\ {f.data[i] : i \in 1..Len(f.data)} =
           {built.ecoLookup[i].key : i \in 1..Len(built.ecoLookup)}
      /\ {f.data[i] : i \in 1..Len(f.data)} =
           {built.openingList[i].eco : i \in 1..Len(built.openingList)}

\* eco-list.json is written after a fold in which two records share an ECO code
C9_Witness ==
  \E f \in files :
    /\ f.file = "eco-list.json"
    /\ Len(f.data) >= 2
    /\ Len(f.data) < Len(built.openingList)

\* C10: in each fan-out batch no task consumes the result of its own request
\* (resumes after its await) before every task of the batch has been dispatched.
C10_DispatchBeforeConsume ==
  /\ (\E i \in 1..Len(promises) : promises[i].st \in {"reading", "resolved", "rejected"})
       => \A j \in 1..Len(promises) : promises[j].st # "idle"
  /\ (\E k \in 1..Len(writes) : writes[k].st \in {"resolved", "rejected"})
       => Len(writes) = 5

\* a write has been consumed while a sibling write is still in flight, after a
\* batch of category fetches that were all consumed
C10_Witness ==
  /\ pc = "main.writes.all"
  /\ \E k \in 1..Len(writes) : writes[k].st = "resolved"
  /\ \E k \in 1..Len(writes) : writes[k].st = "writing"
  /\ \A i \in 1..Len(promises) : promises[i].st = "resolved"

====
